---- MODULE Spec2Model ----
(***************************************************************************)
(* Model of the notebooks' two fragments with local logic:                 *)
(*   - ModelWrapper (load_context / predict), the MLflow pyfunc adapter    *)
(*     around an XGBClassifier;                                            *)
(*   - the cpu_compute_target cell (get, or create on any failure).        *)
(* Probabilities are fixed-point: the integer k stands for k / PDen.       *)
(* Three specifications: ServingSpec (one predict call on a loaded          *)
(* instance), WrapperSpec (any sequence of load_context and predict calls), *)
(* ComputeSpec (repeated runs of the compute cell).                         *)
(* The notebooks' remote-client glue is modelled by four more:              *)
(*   - NotebookSpec: one top-to-bottom run of a notebook's cells against    *)
(*     the workspace, whose long-running operations progress on their own;  *)
(*   - RegistrySpec: the cells that pick and deploy the latest model;       *)
(*   - NameSpec: the cell that derives an endpoint name from the clock;     *)
(*   - TrainSpec: the command job's command line and main.py's main().      *)
(***************************************************************************)
EXTENDS Integers, Sequences, FiniteSets, TLC

\* ---------------------------------------------------------------- bounds
PDen == 2          \* probability grid: values k / PDen, k \in 0..PDen
NRows == 2         \* distinct feature rows a batch is built from
MaxClasses == 3    \* models have 2..MaxClasses classes
MaxBatch == 2      \* longest input batch
MaxRuns == 3       \* executions of the compute cell per behaviour
MaxVersion == 11   \* highest version number of the registered model
MaxNames == 2      \* runs of the name-generation cell per behaviour

VARIABLES
    fs,             \* file system: path -> file content
    self_model,     \* ModelWrapper instance attribute self.model
    lastOp,         \* the last call made on the instance: "none", "load" or "predict"
    reads,          \* number of XGBClassifier.load_model calls that last call made
    loadOut,        \* outcome of the last load_context call
    loadPath,       \* context.artifacts["model"] of the last load_context call
    lastData,       \* input batch of the last predict call since the last load_context
    lastOut,        \* outcome of that predict call
    servedBy,       \* self.model as it was when that predict call started
    repeated,       \* the last predict call repeated the input of the call before it
    cluster,        \* the workspace's compute target named cpu-cluster
    cluster0,       \* that compute target before the first run of the cell
    createReqs,     \* begin_create_or_update requests issued so far
    log,            \* one entry per run of the compute cell
    nb,             \* the notebook being run
    pc,             \* index of the notebook's next remote-client call
    status,         \* "running", "stopped" (an exception reached the user) or "done"
    err,            \* the exception that stopped the notebook
    waiting,        \* the current call is blocked in .result() / .wait()
    ops,            \* workspace side: state of each long-running operation
    traffic,        \* the traffic map last sent for the endpoint
    caught,         \* calls whose failure an except clause has caught
    endpoints,      \* names of the online endpoints that exist in the workspace
    registry,       \* versions of credit_defaults_model in the workspace
    listed,         \* the versions models.list returned to the notebook
    latest_model_version, \* the notebook variable of that name
    model,          \* the notebook variable model (result of models.get)
    deployed,       \* version of the model the blue deployment was created with
    rpc,            \* next cell of the deployment part of the notebook
    now,            \* the clock: datetime.datetime.now()
    names,          \* one entry per run of the name-generation cell
    inputs,         \* the command job's inputs dictionary
    argv,           \* the command line the job runs, after placeholder substitution
    args,           \* the namespace parse_args returned
    tpc,            \* index of main's next step
    tstatus,        \* "submitted", "running", "failed" or "finished"
    tlog,           \* the steps of main that have completed, in order
    namespace,      \* the global names assigned in the migration notebook's kernel
    cellOut,        \* outcome of the last execution of each of its code cells
    saved,          \* the files model.save_model has written
    logged          \* the artifact mlflow.pyfunc.log_model has logged

wvars == <<fs, self_model, lastOp, reads, loadOut, loadPath,
           lastData, lastOut, servedBy, repeated>>
cvars == <<cluster, cluster0, createReqs, log>>
nvars == <<nb, pc, status, err, waiting, ops, traffic, caught, endpoints>>
rvars == <<registry, listed, latest_model_version, model, deployed, rpc>>
dvars == <<now, names>>
tvars == <<inputs, argv, args, tpc, tstatus, tlog>>
lvars == <<namespace, cellOut, saved, logged>>
xvars == <<nvars, rvars, dvars, tvars, lvars>>
vars == <<wvars, cvars, xvars>>

\* ------------------------------------------------- the underlying classifier
Rows == 0 .. (NRows - 1)
Paths == {"xgb.model", "other.model"}
ErrKinds == {"ValueError", "RuntimeError"}

RECURSIVE SumTo(_, _)
SumTo(v, k) == IF k < 0 THEN 0 ELSE v[k] + SumTo(v, k - 1)

\* probability rows over k classes (indices 0..k-1): entries in [0,1], sum 1
ProbVecs(k) == {v \in [0 .. (k - 1) -> 0 .. PDen] : SumTo(v, k - 1) = PDen}

NoVec == [c \in {} |-> 0]

\* what predict_proba does on one feature row: a probability row, or an error
RowOuts(k) == {[err |-> "none", p |-> v] : v \in ProbVecs(k)}
              \cup {[err |-> e, p |-> NoVec] : e \in ErrKinds}

\* a fitted booster: its class count and its (deterministic) predict_proba
Boosters == UNION {[nclass : {k}, proba : [Rows -> RowOuts(k)]] : k \in 2 .. MaxClasses}

NoBooster == [nclass |-> 0, proba |-> [r \in Rows |-> [err |-> "none", p |-> NoVec]]]

\* self.model: attribute never assigned, a fresh unfitted classifier, or a loaded one
Unset == [state |-> "unset", booster |-> NoBooster]
Unfitted == [state |-> "unfitted", booster |-> NoBooster]
Loaded(b) == [state |-> "loaded", booster |-> b]

\* file contents
Missing == [kind |-> "missing", booster |-> NoBooster]
Corrupt == [kind |-> "corrupt", booster |-> NoBooster]
ModelFile(b) == [kind |-> "model", booster |-> b]
FileContents == {Corrupt} \cup {ModelFile(b) : b \in Boosters}

\* the notebook's heart-disease classifier is binary (target 0 / 1)
BinaryFileContents ==
    {c \in FileContents :
        c.kind = "model" =>
            /\ c.booster.nclass = 2
            /\ \A r \in Rows : c.booster.proba[r].err = "none"}

\* input batches: sequences of feature rows, the empty batch included
Batches == UNION {[1 .. n -> Rows] : n \in 0 .. MaxBatch}

\* PythonModelContext values: artifacts with or without the key "model"
NoKey == "<no key>"
Contexts == {[artifacts |-> NoKey]} \cup {[artifacts |-> p] : p \in Paths}

\* ------------------------------------------------------------ numpy / pandas
\* a 2-D array of shape (n, k), indices from 0
NdArray(n, k, a) == [n |-> n, k |-> k, a |-> a]

\* a call's outcome: a returned table or string, or a raised error
NoTable == [columns |-> <<>>, rows |-> <<>>]
NoOut == [kind |-> "none", err |-> "none", table |-> NoTable]
Raised(e) == [kind |-> "raised", err |-> e, table |-> NoTable]
Returned(t) == [kind |-> "table", err |-> "none", table |-> t]
ReturnedString(e) == [kind |-> "string", err |-> e, table |-> NoTable]

\* indices (1-based, into the batch) of the rows the booster rejects
BadRows(b, data) == {i \in 1 .. Len(data) : b.proba[data[i]].err # "none"}

MinOf(S) == CHOOSE x \in S : \A y \in S : x <= y

\* variant: predict_proba of a model that was never loaded yields an empty array
PredictProbaLenient(m, data) ==
    IF m.state # "loaded" THEN [err |-> "none", arr |-> NdArray(0, 0, <<>>)]
    ELSE IF BadRows(m.booster, data) # {}
         THEN [err |-> m.booster.proba[data[MinOf(BadRows(m.booster, data))]].err,
               arr |-> NdArray(0, 0, <<>>)]
         ELSE [err |-> "none",
               arr |-> NdArray(Len(data), m.booster.nclass,
                               [i \in 0 .. (Len(data) - 1) |-> m.booster.proba[data[i + 1]].p])]

\* self.model.predict_proba(data): raises, or yields the (N, nclass) array
PredictProba(m, data) ==
    IF m.state = "unset" THEN [err |-> "AttributeError", arr |-> NdArray(0, 0, <<>>)]
    ELSE IF m.state = "unfitted" THEN [err |-> "NotFittedError", arr |-> NdArray(0, 0, <<>>)]
    ELSE IF BadRows(m.booster, data) # {}
         THEN [err |-> m.booster.proba[data[MinOf(BadRows(m.booster, data))]].err,
               arr |-> NdArray(0, 0, <<>>)]
         ELSE [err |-> "none",
               arr |-> NdArray(Len(data), m.booster.nclass,
                               [i \in 0 .. (Len(data) - 1) |-> m.booster.proba[data[i + 1]].p])]

\* variant: argmin in place of argmax
ArgminAxis1(arr) ==
    [i \in 0 .. (arr.n - 1) |->
        CHOOSE j \in 0 .. (arr.k - 1) :
            /\ \A j2 \in 0 .. (arr.k - 1) : arr.a[i][j2] >= arr.a[i][j]
            /\ \A j2 \in 0 .. (j - 1) : arr.a[i][j2] > arr.a[i][j]]

\* variant: per row, the last index holding the row's maximum
ArgmaxLastAxis1(arr) ==
    [i \in 0 .. (arr.n - 1) |->
        CHOOSE j \in 0 .. (arr.k - 1) :
            /\ \A j2 \in 0 .. (arr.k - 1) : arr.a[i][j2] <= arr.a[i][j]
            /\ \A j2 \in (j + 1) .. (arr.k - 1) : arr.a[i][j2] < arr.a[i][j]]

\* predictions.argmax(axis=1): per row, the first index holding the row's maximum
ArgmaxAxis1(arr) ==
    [i \in 0 .. (arr.n - 1) |->
        CHOOSE j \in 0 .. (arr.k - 1) :
            /\ \A j2 \in 0 .. (arr.k - 1) : arr.a[i][j2] <= arr.a[i][j]
            /\ \A j2 \in 0 .. (j - 1) : arr.a[i][j2] < arr.a[i][j]]

\* variant: min in place of max
MinAxis1(arr) ==
    [i \in 0 .. (arr.n - 1) |->
        CHOOSE x \in {arr.a[i][j] : j \in 0 .. (arr.k - 1)} :
            \A j \in 0 .. (arr.k - 1) : arr.a[i][j] >= x]

\* variant: predictions[:, 1], the probability of class 1
ProbaOfClass1(arr) == [i \in 0 .. (arr.n - 1) |-> arr.a[i][1]]

\* variant: predictions.max(axis=0), one entry per class
MaxAxis0(arr) ==
    [j \in 0 .. (arr.k - 1) |->
        IF arr.n = 0 THEN 0
        ELSE CHOOSE x \in {arr.a[i][j] : i \in 0 .. (arr.n - 1)} :
                 \A i \in 0 .. (arr.n - 1) : arr.a[i][j] <= x]

\* predictions.max(axis=1): per row, the largest entry
MaxAxis1(arr) ==
    [i \in 0 .. (arr.n - 1) |->
        CHOOSE x \in {arr.a[i][j] : j \in 0 .. (arr.k - 1)} :
            \A j \in 0 .. (arr.k - 1) : arr.a[i][j] <= x]

\* ndarray.tolist() of a 1-D array: the Python list of its elements (1-based here)
ToList(a) == [i \in 1 .. Cardinality(DOMAIN a) |-> a[i - 1]]

\* pd.DataFrame(data={name: list, ...}): one column per key in key order, one row
\* per list position; lists of unequal length raise ValueError
DataFrame(cols) ==
    IF \E c, d \in 1 .. Len(cols) : Len(cols[c].values) # Len(cols[d].values)
    THEN Raised("ValueError")
    ELSE Returned([columns |-> [c \in 1 .. Len(cols) |-> cols[c].name],
                   rows |-> [i \in 1 .. (IF Len(cols) = 0 THEN 0 ELSE Len(cols[1].values)) |->
                                [nm \in {cols[c].name : c \in 1 .. Len(cols)} |->
                                    cols[CHOOSE c \in 1 .. Len(cols) : cols[c].name = nm].values[i]]]])

\* ------------------------------------------------------------- ModelWrapper
\* output_sample, the row the signature is inferred from: {"class": 0,
\* "confidence": 0.25}, the confidence as the fraction num / den
output_sample == [class |-> 0, confidence |-> [num |-> 1, den |-> 4]]

\* variant: predict keeping the try / except RuntimeError of score.py's run
predictCatching(m, data) ==
    LET pr == PredictProba(m, data) IN
    IF pr.err = "RuntimeError" THEN ReturnedString(pr.err)
    ELSE IF pr.err # "none" THEN Raised(pr.err)
    ELSE DataFrame(<<[name |-> "class", values |-> ToList(ArgmaxAxis1(pr.arr))],
                     [name |-> "confidence", values |-> ToList(MaxAxis1(pr.arr))]>>)

\* variant: predict reporting the probability of class 1 as the confidence
predictPositiveProba(m, data) ==
    LET pr == PredictProba(m, data) IN
    IF pr.err # "none" THEN Raised(pr.err)
    ELSE DataFrame(<<[name |-> "class", values |-> ToList(ArgmaxAxis1(pr.arr))],
                     [name |-> "confidence", values |-> ToList(ProbaOfClass1(pr.arr))]>>)

\* ModelWrapper.predict(self, context, data), as a function of self.model and data
predict(m, data) ==
    LET pr == PredictProba(m, data) IN
    IF pr.err # "none" THEN Raised(pr.err)
    ELSE LET predictions == pr.arr
             classes == ArgmaxAxis1(predictions)
             confidence == MaxAxis1(predictions)
         IN DataFrame(<<[name |-> "class", values |-> ToList(classes)],
                        [name |-> "confidence", values |-> ToList(confidence)]>>)

\* json.dumps of a dict whose values are lists of numbers: the JSON object's
\* members in insertion order, each list with its elements in order
JsonDumps(members) == [i \in 1 .. Len(members) |-> [key |-> members[i].name, value |-> members[i].values]]
JsonValue(json, key) == json[CHOOSE i \in 1 .. Len(json) : json[i].key = key].value

\* score.py's run(data), as a function of the global MODEL and data: the JSON
\* text, the message string when RuntimeError is caught, or the error raised
run(MODEL, data) ==
    LET pr == PredictProba(MODEL, data) IN
    IF pr.err = "RuntimeError" THEN [kind |-> "string", err |-> pr.err, json |-> <<>>]
    ELSE IF pr.err # "none" THEN [kind |-> "raised", err |-> pr.err, json |-> <<>>]
    ELSE LET predictions == pr.arr
             classes == ArgmaxAxis1(predictions)
             confidence == MaxAxis1(predictions)
         IN [kind |-> "json", err |-> "none",
             json |-> JsonDumps(<<[name |-> "class", values |-> ToList(classes)],
                                  [name |-> "confidence", values |-> ToList(confidence)]>>)]

\* variant: load_context reading a fixed path instead of context.artifacts["model"]
load_contextFixedPath(m, ctx, files) ==
    IF ctx.artifacts = NoKey
    THEN [model |-> m, out |-> "KeyError", reads |-> 0]
    ELSE IF files["xgb.model"].kind = "model"
         THEN [model |-> Loaded(files["xgb.model"].booster), out |-> "ok", reads |-> 1]
         ELSE [model |-> Unfitted, out |-> "XGBoostError", reads |-> 1]

\* ModelWrapper.load_context(self, context), as a function of self.model, the
\* context and the files: the new self.model, the outcome, the load_model calls made
load_context(m, ctx, files) ==
    IF ctx.artifacts = NoKey
    THEN [model |-> m, out |-> "KeyError", reads |-> 0]
    ELSE LET model_path == ctx.artifacts IN
         IF files[model_path].kind = "model"
         THEN [model |-> Loaded(files[model_path].booster), out |-> "ok", reads |-> 1]
         ELSE [model |-> Unfitted, out |-> "XGBoostError", reads |-> 1]

\* files on disk: one path holds a model file or an invalid one, the other nothing
Files(contents) ==
    {[q \in Paths |-> IF q = p THEN c ELSE Missing] : p \in Paths, c \in contents}

\* a freshly constructed ModelWrapper: no attribute assigned, nothing called yet
WrapperInit ==
    /\ fs \in Files(BinaryFileContents)
    /\ self_model = Unset
    /\ lastOp = "none"
    /\ reads = 0
    /\ loadOut = "none"
    /\ loadPath = NoKey
    /\ lastData = <<>>
    /\ lastOut = NoOut
    /\ servedBy = Unset
    /\ repeated = FALSE

\* a ModelWrapper as MLflow hands it to serving: load_context has been called once
\* with the path of the logged artifact
ServingInit ==
    /\ fs \in Files(FileContents)
    /\ \E p \in {"xgb.model"} :
          /\ fs[p] # Missing
          /\ LET r == load_context(Unset, [artifacts |-> p], fs) IN
                /\ self_model = r.model
                /\ loadOut = r.out
                /\ reads = r.reads
          /\ loadPath = p
    /\ lastOp = "load"
    /\ lastData = <<>>
    /\ lastOut = NoOut
    /\ servedBy = Unset
    /\ repeated = FALSE

\* one call of load_context
LoadContext(ctx) ==
    /\ LET r == load_context(self_model, ctx, fs) IN
          /\ self_model' = r.model
          /\ loadOut' = r.out
          /\ reads' = r.reads
    /\ loadPath' = ctx.artifacts
    /\ lastOp' = "load"
    /\ lastData' = <<>>
    /\ lastOut' = NoOut
    /\ servedBy' = Unset
    /\ repeated' = FALSE
    /\ UNCHANGED fs
    /\ UNCHANGED cvars
    /\ UNCHANGED xvars

\* variant: a predict call that drops self.model after serving
PredictForgets(data) ==
    /\ lastOut' = predict(self_model, data)
    /\ lastData' = data
    /\ servedBy' = self_model
    /\ repeated' = (lastOp = "predict" /\ data = lastData)
    /\ lastOp' = "predict"
    /\ reads' = 0
    /\ self_model' = Unset
    /\ UNCHANGED <<fs, loadOut, loadPath>>
    /\ UNCHANGED cvars
    /\ UNCHANGED xvars

\* one call of predict
Predict(data) ==
    /\ lastOut' = predict(self_model, data)
    /\ lastData' = data
    /\ servedBy' = self_model
    /\ repeated' = (lastOp = "predict" /\ data = lastData)
    /\ lastOp' = "predict"
    /\ reads' = 0
    /\ UNCHANGED <<fs, self_model, loadOut, loadPath>>
    /\ UNCHANGED cvars
    /\ UNCHANGED xvars

WrapperNext ==
    \/ \E ctx \in Contexts : LoadContext(ctx)
    \/ \E data \in Batches : Predict(data)

\* serving one request on the freshly loaded instance
ServingNext == lastOp = "load" /\ \E data \in Batches : Predict(data)

\* ------------------------------------------------- the cpu_compute_target cell
cpu_compute_target == "cpu-cluster"
MinInstances == 0
MaxInstances == 4
IdleTimeBeforeScaleDown == 180

Absent == [exists |-> FALSE, name |-> cpu_compute_target, size |-> "none",
           min_instances |-> 0, max_instances |-> 0, idle |-> 0]

\* the AmlCompute object the cell builds
AmlCompute == [exists |-> TRUE, name |-> cpu_compute_target, size |-> "STANDARD_DS3_V2",
               min_instances |-> MinInstances, max_instances |-> MaxInstances,
               idle |-> IdleTimeBeforeScaleDown]

\* compute targets named cpu-cluster the workspace may hold before the cell runs
ExistingClusters ==
    [exists : {TRUE}, name : {cpu_compute_target},
     size : {"STANDARD_DS3_V2", "STANDARD_DS11_V2"},
     min_instances : {MinInstances}, max_instances : {1, MaxInstances},
     idle : {IdleTimeBeforeScaleDown}]

\* errors a remote call can raise for reasons other than the target's absence
TransientErrors == {"HttpResponseError", "ClientAuthenticationError"}

\* outcomes of ml_client.compute.get(cpu_compute_target)
GetOutcomes(cl) ==
    IF cl.exists THEN {"ok"} \cup TransientErrors
    ELSE {"ResourceNotFoundError"} \cup TransientErrors

\* outcomes of ml_client.compute.begin_create_or_update(cpu_cluster)
CreateOutcomes == {"ok"} \cup TransientErrors

\* classes an `except Exception:` clause catches
ExceptionClasses == {"ResourceNotFoundError"} \cup TransientErrors

\* what one run of the cell did: the get outcome, whether a create request went
\* out and its outcome, the target before and after, the error the cell raised
\* and the call that raised it, and the value bound to cpu_cluster
CellRun(cl, g, requested, c, after, raised, raisedBy, local) ==
    [get |-> g, requested |-> requested, create |-> c, before |-> cl, after |-> after,
     raised |-> raised, raisedBy |-> raisedBy, cpu_cluster |-> local]

\* the except branch: build AmlCompute, then begin_create_or_update; an error
\* raised there is inside the handler and propagates
CreateBranch(cl, g, c) ==
    IF c = "ok"
    THEN CellRun(cl, g, TRUE, c, AmlCompute, "none", "none", AmlCompute)
    ELSE CellRun(cl, g, TRUE, c, cl, c, "create", Absent)

\* variant: the cell sends the create-or-update also after a successful get
cellAlwaysUpserts(cl, g, c) ==
    IF g \notin ExceptionClasses \cup {"ok"}
    THEN CellRun(cl, g, FALSE, "none", cl, g, "get", Absent)
    ELSE CreateBranch(cl, g, c)

\* variant: the handler catches only ResourceNotFoundError
cellCatchesNotFoundOnly(cl, g, c) ==
    IF g = "ok"
    THEN CellRun(cl, g, FALSE, "none", cl, "none", "none", cl)
    ELSE IF g # "ResourceNotFoundError"
    THEN CellRun(cl, g, FALSE, "none", cl, g, "get", Absent)
    ELSE CreateBranch(cl, g, c)

\* variant: the cell updates a found target that differs from the intended one
cellReconciles(cl, g, c) ==
    IF g = "ok" /\ cl = AmlCompute
    THEN CellRun(cl, g, FALSE, "none", cl, "none", "none", cl)
    ELSE IF g \notin ExceptionClasses \cup {"ok"}
    THEN CellRun(cl, g, FALSE, "none", cl, g, "get", Absent)
    ELSE CreateBranch(cl, g, c)

\* the cell, as a function of the workspace's target and of what the two remote
\* calls do
cell(cl, g, c) ==
    IF g = "ok"
    THEN \* the try body completed: reuse as is
         CellRun(cl, g, FALSE, "none", cl, "none", "none", cl)
    ELSE IF g \notin ExceptionClasses
    THEN \* not caught by `except Exception`
         CellRun(cl, g, FALSE, "none", cl, g, "get", Absent)
    ELSE CreateBranch(cl, g, c)

ComputeInit ==
    /\ cluster \in {Absent} \cup ExistingClusters
    /\ cluster0 = cluster
    /\ createReqs = 0
    /\ log = <<>>

\* one execution of the cell
RunComputeCell ==
    /\ Len(log) < MaxRuns
    /\ \E g \in GetOutcomes(cluster), c \in CreateOutcomes :
          LET r == cell(cluster, g, c) IN
          /\ cluster' = r.after
          /\ createReqs' = createReqs + (IF r.requested THEN 1 ELSE 0)
          /\ log' = Append(log, r)
    /\ UNCHANGED cluster0
    /\ UNCHANGED wvars
    /\ UNCHANGED xvars

ComputeNext == RunComputeCell

\* --------------------------------------- picking and deploying the latest model
\* version strings are decimal numerals: sequences of digits, as the registry
\* assigns them (1, 2, 3, ...)
RECURSIVE str(_)
str(n) == IF n < 10 THEN <<n>> ELSE Append(str(n \div 10), n % 10)

\* int(m.version)
RECURSIVE int(_)
int(s) == IF Len(s) = 1 THEN s[1] ELSE 10 * int(SubSeq(s, 1, Len(s) - 1)) + s[Len(s)]

VersionStrings == {str(n) : n \in 1 .. MaxVersion}

\* string comparison, as max() applies it to str values
StrLess(a, b) ==
    \E i \in 1 .. Len(b) :
        /\ \A j \in 1 .. (i - 1) : j <= Len(a) /\ a[j] = b[j]
        /\ (i > Len(a) \/ a[i] < b[i])

\* variant: the greatest version string, without the conversion to int
latest_versionOfStrings(versions) ==
    int(CHOOSE v \in versions : \A w \in versions : w = v \/ StrLess(w, v))

\* max([int(m.version) for m in ml_client.models.list(name=registered_model_name)])
latest_version(versions) ==
    LET ints == {int(v) : v \in versions}
    IN CHOOSE n \in ints : \A k \in ints : k <= n

NoModel == <<>>

\* the workspace when the deployment part of the notebook starts
RegistryInit ==
    /\ registry \in SUBSET VersionStrings
    /\ listed = {}
    /\ latest_model_version = 0
    /\ model = NoModel
    /\ deployed = NoModel
    /\ rpc = "latest_model_version"

\* the cell computing latest_model_version; max() of an empty list raises
ListVersions ==
    /\ rpc = "latest_model_version"
    /\ listed' = registry
    /\ IF registry = {}
       THEN latest_model_version' = latest_model_version /\ rpc' = "ValueError"
       ELSE latest_model_version' = latest_version(registry) /\ rpc' = "models.get"
    /\ UNCHANGED <<registry, model, deployed>>
    /\ UNCHANGED <<wvars, cvars, nvars, dvars, tvars, lvars>>

\* model = ml_client.models.get(name=registered_model_name, version=latest_model_version)
GetModel ==
    /\ rpc = "models.get"
    /\ IF str(latest_model_version) \in registry
       THEN model' = str(latest_model_version) /\ rpc' = "blue_deployment"
       ELSE model' = model /\ rpc' = "ResourceNotFoundError"
    /\ UNCHANGED <<registry, listed, latest_model_version, deployed>>
    /\ UNCHANGED <<wvars, cvars, nvars, dvars, tvars, lvars>>

\* ManagedOnlineDeployment(name="blue", model=model, ...) is created
Deploy ==
    /\ rpc = "blue_deployment"
    /\ deployed' = model
    /\ rpc' = "done"
    /\ UNCHANGED <<registry, listed, latest_model_version, model>>
    /\ UNCHANGED <<wvars, cvars, nvars, dvars, tvars, lvars>>

\* workspace side: a training job registers the next version of the model
RegisterVersion ==
    /\ rpc \in {"latest_model_version", "models.get", "blue_deployment"}
    /\ LET next == IF registry = {} THEN 1 ELSE latest_version(registry) + 1 IN
          /\ next <= MaxVersion
          /\ registry' = registry \cup {str(next)}
    /\ UNCHANGED <<listed, latest_model_version, model, deployed, rpc>>
    /\ UNCHANGED <<wvars, cvars, nvars, dvars, tvars, lvars>>

RegistryNext ==
    \/ ListVersions
    \/ GetModel
    \/ Deploy
    \/ RegisterVersion

\* ---------------------------------------------- the notebooks' remote calls
Notebooks == {"azureml-in-a-day", "automl-mlflow", "automl-codegen"}
AutoMLNotebooks == {"automl-mlflow", "automl-codegen"}

\* long-running operations of the workspace that the notebooks start
Operations == {"compute", "job", "script_job", "endpoint", "deployment",
               "endpoint_update", "delete"}
Finished == {"succeeded", "failed"}
AllTraffic == 100
NoTraffic == [d \in {} |-> 0]

\* one remote-client call of a notebook: the cell it is in, the call, how the
\* code makes it and the long-running operation it starts or waits for
\*   "call"           a call that returns its result
\*   "submit"         starts the operation and returns at once
\*   "begin_result"   begin_...(...) followed by .result() or .wait()
\*   "stream"         jobs.stream(name)
\*   "get_or_create"  the compute cell: get, on any exception create
\*   "try_from_config" MLClient.from_config, on any exception MLClient(...)
St(cell_, call_, mode_, op_) == [cell |-> cell_, call |-> call_, mode |-> mode_, op |-> op_]

\* AzureML in a Day (the handle is built lazily, without a remote call)
DaySteps ==
    << St("cpu_compute_target", "compute.get", "get_or_create", "compute"),
       St("custom_env", "environments.create_or_update", "call", "none"),
       St("create_job", "create_or_update(job)", "submit", "job"),
       St("create_endpoint", "online_endpoints.begin_create_or_update", "begin_result", "endpoint"),
       St("get_endpoint", "online_endpoints.get", "call", "none"),
       St("latest_model_version", "models.list", "call", "none"),
       St("blue_deployment", "models.get", "call", "none"),
       St("blue_deployment", "begin_create_or_update(blue_deployment)", "begin_result", "deployment"),
       St("invoke", "online_endpoints.invoke", "call", "none"),
       St("delete_endpoint", "online_endpoints.begin_delete", "submit", "delete") >>

\* variant: the MLflow notebook with the deployment cell before the endpoint cell
MlflowStepsDeployFirst ==
    << St("mlclient-setup", "MLClient.from_config", "try_from_config", "none"),
       St("workspace", "workspaces.get", "call", "none"),
       St("submit_job", "jobs.create_or_update", "submit", "job"),
       St("stream", "jobs.stream", "stream", "job"),
       St("tracking_uri", "workspaces.get", "call", "none"),
       St("parent_run", "get_run(job_name)", "call", "none"),
       St("best_child_run", "get_run(best_child_run_id)", "call", "none"),
       St("download", "download_artifacts", "call", "none"),
       St("create_deployment", "online_deployments.begin_create_or_update", "begin_result", "deployment"),
       St("register_model", "models.create_or_update", "call", "none"),
       St("create_endpoint", "begin_create_or_update(endpoint)", "begin_result", "endpoint"),
       St("set_traffic", "begin_create_or_update(endpoint)", "begin_result", "endpoint_update"),
       St("invoke", "online_endpoints.invoke", "call", "none"),
       St("get_endpoint", "online_endpoints.get", "call", "none"),
       St("delete_endpoint", "online_endpoints.begin_delete", "begin_result", "delete") >>

\* variant: the MLflow notebook assigning the traffic before creating the deployment
MlflowStepsTrafficFirst ==
    << St("mlclient-setup", "MLClient.from_config", "try_from_config", "none"),
       St("workspace", "workspaces.get", "call", "none"),
       St("submit_job", "jobs.create_or_update", "submit", "job"),
       St("stream", "jobs.stream", "stream", "job"),
       St("tracking_uri", "workspaces.get", "call", "none"),
       St("parent_run", "get_run(job_name)", "call", "none"),
       St("best_child_run", "get_run(best_child_run_id)", "call", "none"),
       St("download", "download_artifacts", "call", "none"),
       St("create_endpoint", "begin_create_or_update(endpoint)", "begin_result", "endpoint"),
       St("register_model", "models.create_or_update", "call", "none"),
       St("set_traffic", "begin_create_or_update(endpoint)", "begin_result", "endpoint_update"),
       St("create_deployment", "online_deployments.begin_create_or_update", "begin_result", "deployment"),
       St("invoke", "online_endpoints.invoke", "call", "none"),
       St("get_endpoint", "online_endpoints.get", "call", "none"),
       St("delete_endpoint", "online_endpoints.begin_delete", "begin_result", "delete") >>

\* AutoML classification with MLflow
MlflowSteps ==
    << St("mlclient-setup", "MLClient.from_config", "try_from_config", "none"),
       St("workspace", "workspaces.get", "call", "none"),
       St("submit_job", "jobs.create_or_update", "submit", "job"),
       St("stream", "jobs.stream", "stream", "job"),
       St("tracking_uri", "workspaces.get", "call", "none"),
       St("parent_run", "get_run(job_name)", "call", "none"),
       St("best_child_run", "get_run(best_child_run_id)", "call", "none"),
       St("download", "download_artifacts", "call", "none"),
       St("create_endpoint", "begin_create_or_update(endpoint)", "begin_result", "endpoint"),
       St("register_model", "models.create_or_update", "call", "none"),
       St("create_deployment", "online_deployments.begin_create_or_update", "begin_result", "deployment"),
       St("set_traffic", "begin_create_or_update(endpoint)", "begin_result", "endpoint_update"),
       St("invoke", "online_endpoints.invoke", "call", "none"),
       St("get_endpoint", "online_endpoints.get", "call", "none"),
       St("delete_endpoint", "online_endpoints.begin_delete", "begin_result", "delete") >>

\* AutoML classification with code generation
CodegenSteps ==
    << St("mlclient-setup", "MLClient.from_config", "try_from_config", "none"),
       St("workspace", "workspaces.get", "call", "none"),
       St("submit_job", "jobs.create_or_update", "submit", "job"),
       St("stream", "jobs.stream", "stream", "job"),
       St("retrain_data", "data.create_or_update", "call", "none"),
       St("tracking_uri", "workspaces.get", "call", "none"),
       St("parent_run", "get_run(job_name)", "call", "none"),
       St("best_child_run", "get_run(best_child_run_id)", "call", "none"),
       St("download", "download_artifacts", "call", "none"),
       St("submit_script_job", "create_or_update(command_job)", "submit", "script_job"),
       St("stream_script_job", "jobs.stream", "stream", "script_job") >>

StepsOf(n) ==
    IF n = "azureml-in-a-day" THEN DaySteps
    ELSE IF n = "automl-mlflow" THEN MlflowSteps
    ELSE CodegenSteps

\* the call the notebook is at
Step == StepsOf(nb)[pc]
AtStep == status = "running" /\ pc \in 1 .. Len(StepsOf(nb))

\* the traffic map a call carries: only the endpoint update of the MLflow
\* notebook assigns endpoint.traffic before sending the endpoint
\* variant: a traffic map that gives every deployment the whole traffic
trafficToEveryDeployment == [d \in {"bankmarketing-deploy", "blue"} |-> AllTraffic]

bankmarketing_traffic == [d \in {"bankmarketing-deploy"} |-> AllTraffic]
TrafficSentBy(n, st, before) ==
    IF n = "automl-mlflow" /\ st.cell = "set_traffic" THEN bankmarketing_traffic
    ELSE IF st.cell = "create_endpoint" THEN NoTraffic
    ELSE before

NoErr == [call |-> "none", kind |-> "none", at |-> 0]
Raise(call_, kind_) ==
    /\ status' = "stopped"
    /\ err' = [call |-> call_, kind |-> kind_, at |-> pc]
    /\ pc' = pc

\* the notebook goes on to its next call, or is done after the last one
Advance ==
    /\ pc' = pc + 1
    /\ status' = IF pc = Len(StepsOf(nb)) THEN "done" ELSE "running"
    /\ err' = err

\* the version the registry gives the next model registered under the name
NextVersion(versions) == IF versions = {} THEN str(1) ELSE str(latest_version(versions) + 1)

\* the value of online_endpoint_name in a run of the notebook
EndpointNameOf(n) ==
    IF n = "azureml-in-a-day" THEN "credit-endpoint-<uuid>"
    ELSE IF n = "automl-mlflow" THEN "bankmarketing-<stamp>"
    ELSE "none"

\* variant: the delete cell naming the endpoint by its prefix only
deleteByPrefix(n) ==
    IF n = "azureml-in-a-day" THEN "credit-endpoint-"
    ELSE IF n = "automl-mlflow" THEN "bankmarketing-"
    ELSE "none"

\* the name given to the deployment a notebook creates
DeploymentNameOf(n) ==
    IF n = "azureml-in-a-day" THEN "blue"
    ELSE IF n = "automl-mlflow" THEN "bankmarketing-deploy"
    ELSE "none"

\* begin_delete(name=online_endpoint_name)
DeleteRequestName(n) == EndpointNameOf(n)

\* what a notebook run leaves alone
nbframe == <<wvars, dvars, tvars, lvars, cluster0, log, listed, model, deployed, rpc>>
CallOutcomes == {"ok", "HttpResponseError"}

\* variant: a call wrapped in try / except that goes on after a failure
CallSwallowsErrors ==
    /\ AtStep /\ Step.mode = "call"
    /\ \E o \in CallOutcomes :
          /\ caught' = IF o = "ok" THEN caught ELSE caught \cup {Step.call}
          /\ Advance
    /\ UNCHANGED <<nb, waiting, ops, traffic, cluster, createReqs, nbframe, registry, latest_model_version, endpoints>>

\* variant: a failing call cleans up by deleting the endpoint of the run
CallRollsBack ==
    /\ AtStep /\ Step.mode = "call"
    /\ \E o \in CallOutcomes :
          IF o = "ok"
          THEN Advance /\ UNCHANGED endpoints
          ELSE Raise(Step.call, o) /\ endpoints' = endpoints \ {EndpointNameOf(nb)}
    /\ UNCHANGED <<nb, waiting, ops, traffic, caught, cluster, createReqs, nbframe, registry, latest_model_version>>

\* a call that returns its result, or raises
Call ==
    /\ AtStep /\ Step.mode = "call"
    /\ \E o \in CallOutcomes :
          IF o # "ok"
          THEN Raise(Step.call, o) /\ UNCHANGED latest_model_version
          ELSE IF Step.cell # "latest_model_version"
          THEN Advance /\ UNCHANGED latest_model_version
          ELSE \* max([int(m.version) for m in models.list(...)]): max of an empty list raises
               IF registry = {}
               THEN Raise("max", "ValueError") /\ UNCHANGED latest_model_version
               ELSE Advance /\ latest_model_version' = latest_version(registry)
    /\ UNCHANGED <<nb, waiting, ops, traffic, caught, cluster, createReqs, nbframe, registry, endpoints>>

\* a call that starts a long-running operation and returns without waiting
Submit ==
    /\ AtStep /\ Step.mode = "submit"
    /\ \E o \in CallOutcomes :
          IF o = "ok"
          THEN /\ ops' = [ops EXCEPT ![Step.op] = "inprogress"]
               /\ Advance
          ELSE /\ Raise(Step.call, o)
               /\ ops' = ops
    /\ UNCHANGED <<nb, waiting, traffic, caught, cluster, createReqs, nbframe, registry, latest_model_version, endpoints>>

\* begin_...(...): the request is sent, the poller returned
Begin ==
    /\ AtStep /\ Step.mode = "begin_result" /\ ~waiting
    /\ \E o \in CallOutcomes :
          IF o = "ok"
          THEN /\ ops' = [ops EXCEPT ![Step.op] = "inprogress"]
               /\ traffic' = TrafficSentBy(nb, Step, traffic)
               /\ waiting' = TRUE
               /\ UNCHANGED <<pc, status, err>>
          ELSE /\ Raise(Step.call, o)
               /\ UNCHANGED <<ops, traffic, waiting>>
    /\ UNCHANGED <<nb, caught, cluster, createReqs, nbframe, registry, latest_model_version, endpoints>>

\* the begin_... call whose poller the notebook is blocked on
BeginCall(st) ==
    IF st.mode = "get_or_create" THEN "compute.begin_create_or_update" ELSE st.call

\* variant: the poller is dropped, nothing waits for the operation
ResultReturnsAtOnce ==
    /\ AtStep /\ waiting
    /\ waiting' = FALSE
    /\ Advance
    /\ UNCHANGED <<nb, ops, traffic, caught, cluster, createReqs, nbframe, registry, latest_model_version, endpoints>>

\* .result() / .wait(): returns when the operation has finished, raises if it failed
Result ==
    /\ AtStep /\ waiting
    /\ ops[Step.op] \in Finished
    /\ waiting' = FALSE
    /\ IF ops[Step.op] = "succeeded" THEN Advance ELSE Raise(BeginCall(Step), "OperationFailed")
    /\ UNCHANGED <<nb, ops, traffic, caught, cluster, createReqs, nbframe, registry, latest_model_version, endpoints>>

\* variant: jobs.stream returning without following the job to its end
StreamReturnsAtOnce ==
    /\ AtStep /\ Step.mode = "stream"
    /\ Advance
    /\ UNCHANGED <<nb, waiting, ops, traffic, caught, cluster, createReqs, nbframe, registry, latest_model_version, endpoints>>

\* jobs.stream(name): returns when the job has finished, raises if it failed
Stream ==
    /\ AtStep /\ Step.mode = "stream"
    /\ ops[Step.op] \in Finished
    /\ IF ops[Step.op] = "succeeded" THEN Advance ELSE Raise(Step.call, "JobException")
    /\ UNCHANGED <<nb, waiting, ops, traffic, caught, cluster, createReqs, nbframe, registry, latest_model_version, endpoints>>

\* the client set-up cell: MLClient.from_config in try / except Exception,
\* the except branch builds the handle from explicit workspace details
FromConfig ==
    /\ AtStep /\ Step.mode = "try_from_config"
    /\ \E o \in {"ok", "Exception"} :
          /\ caught' = IF o = "ok" THEN caught ELSE caught \cup {Step.call}
          /\ Advance
    /\ UNCHANGED <<nb, waiting, ops, traffic, cluster, createReqs, nbframe, registry, latest_model_version, endpoints>>

\* the compute cell inside a notebook run. When it creates the cluster, the
\* client either returns the created compute after provisioning (the cell then
\* prints its name and size) or returns a poller, on which the print raises.
ComputeCell ==
    /\ AtStep /\ Step.mode = "get_or_create" /\ ~waiting
    /\ \E g \in GetOutcomes(cluster), c \in CreateOutcomes :
          LET r == cell(cluster, g, c) IN
          /\ cluster' = r.after
          /\ createReqs' = createReqs + (IF r.requested THEN 1 ELSE 0)
          /\ caught' = IF r.requested THEN caught \cup {Step.call} ELSE caught
          /\ IF r.raised # "none"
             THEN /\ Raise(IF r.raisedBy = "get" THEN Step.call ELSE BeginCall(Step), r.raised)
                  /\ UNCHANGED <<ops, waiting>>
             ELSE IF ~r.requested
             THEN Advance /\ UNCHANGED <<ops, waiting>>
             ELSE /\ ops' = [ops EXCEPT !["compute"] = "inprogress"]
                  /\ \/ waiting' = TRUE /\ UNCHANGED <<pc, status, err>>
                     \/ waiting' = FALSE /\ Raise("print(cpu_cluster.name)", "AttributeError")
    /\ UNCHANGED <<nb, traffic, nbframe, registry, latest_model_version, endpoints>>

\* workspace side: a long-running operation finishes; the training job of
\* AzureML in a Day registers a model version when it succeeds
Progress(op) ==
    /\ ops[op] = "inprogress"
    /\ \E s \in Finished :
          /\ ops' = [ops EXCEPT ![op] = s]
          /\ registry' = IF nb = "azureml-in-a-day" /\ op = "job" /\ s = "succeeded"
                         THEN registry \cup {NextVersion(registry)}
                         ELSE registry
          /\ endpoints' = IF op = "endpoint" /\ s = "succeeded"
                          THEN endpoints \cup {EndpointNameOf(nb)}
                          ELSE IF op = "delete" /\ s = "succeeded"
                          THEN endpoints \ {DeleteRequestName(nb)}
                          ELSE endpoints
    /\ UNCHANGED <<nb, pc, status, err, waiting, traffic, caught, cluster, createReqs, nbframe, latest_model_version>>

\* a notebook opened in a workspace, nothing run yet
NotebookInit ==
    /\ nb \in Notebooks
    /\ pc = 1
    /\ status = "running"
    /\ err = NoErr
    /\ waiting = FALSE
    /\ ops = [o \in Operations |-> "none"]
    /\ traffic = NoTraffic
    /\ caught = {}
    /\ endpoints = {}
    /\ registry \in IF nb = "azureml-in-a-day" THEN {{}, {str(1)}} ELSE {{}}
    /\ listed = {}
    /\ latest_model_version = 0
    /\ model = NoModel
    /\ deployed = NoModel
    /\ rpc = "idle"
    /\ cluster \in IF nb = "azureml-in-a-day" THEN {Absent} \cup ExistingClusters ELSE {Absent}
    /\ cluster0 = cluster
    /\ createReqs = 0
    /\ log = <<>>

NotebookNext ==
    \/ Call
    \/ Submit
    \/ Begin
    \/ Result
    \/ Stream
    \/ FromConfig
    \/ ComputeCell
    \/ \E op \in Operations : Progress(op)

\* ----------------------------------------------- the endpoint name from the clock
\* instants the clock can show: two years, two minutes, two seconds and two
\* microsecond values of one hour of one day
Instants ==
    [year : {2022, 2023}, month : {10}, day : {5}, hour : {10},
     minute : {15, 16}, second : {1, 2}, microsecond : {123, 456}]

AsTuple(t) == <<t.year, t.month, t.day, t.hour, t.minute, t.second, t.microsecond>>

\* instant a is earlier than instant b
Earlier(a, b) ==
    \E i \in 1 .. 7 :
        /\ \A j \in 1 .. (i - 1) : AsTuple(a)[j] = AsTuple(b)[j]
        /\ AsTuple(a)[i] < AsTuple(b)[i]

\* a number as w decimal digits, zero-padded
RECURSIVE Pad(_, _)
Pad(n, w) == IF w = 0 THEN <<>> ELSE Append(Pad(n \div 10, w - 1), n % 10)

\* t.strftime("%m%d%H%M%f")
strftime(t) ==
    Pad(t.month, 2) \o Pad(t.day, 2) \o Pad(t.hour, 2) \o Pad(t.minute, 2)
        \o Pad(t.microsecond, 6)

\* online_endpoint_name = "bankmarketing-" + datetime.datetime.now().strftime(...)
online_endpoint_name(t) == [prefix |-> "bankmarketing-", stamp |-> strftime(t)]

NameInit ==
    /\ now \in Instants
    /\ names = <<>>

\* time passes
Tick ==
    /\ \E t \in Instants : Earlier(now, t) /\ now' = t
    /\ UNCHANGED names
    /\ UNCHANGED <<wvars, cvars, nvars, rvars, tvars, lvars>>

\* one run of the name-generation cell
RunNameCell ==
    /\ Len(names) < MaxNames
    /\ names' = Append(names, [at |-> now, name |-> online_endpoint_name(now)])
    /\ UNCHANGED now
    /\ UNCHANGED <<wvars, cvars, nvars, rvars, tvars, lvars>>

NameNext ==
    \/ Tick
    \/ RunNameCell

\* ------------------------------------------ the command job and main.py's main
\* a piece of the command string: a word, an option (--name) or a placeholder
\* (${{inputs.key}}); after substitution a placeholder is a value
Word(t) == [kind |-> "word", text |-> t]
Option(t) == [kind |-> "option", text |-> t]
Placeholder(t) == [kind |-> "placeholder", text |-> t]
Value(t) == [kind |-> "value", text |-> t]

\* variant: a command string that also passes --n_estimators from the inputs
commandWithNEstimators ==
    << Word("python"), Word("main.py"),
       Option("data"), Placeholder("data"),
       Option("test_train_ratio"), Placeholder("test_train_ratio"),
       Option("n_estimators"), Placeholder("n_estimators"),
       Option("learning_rate"), Placeholder("learning_rate"),
       Option("registered_model_name"), Placeholder("registered_model_name") >>

\* the command string of the job
command ==
    << Word("python"), Word("main.py"),
       Option("data"), Placeholder("data"),
       Option("test_train_ratio"), Placeholder("test_train_ratio"),
       Option("learning_rate"), Placeholder("learning_rate"),
       Option("registered_model_name"), Placeholder("registered_model_name") >>

\* inputs=dict(...): the notebook's values and a second value for each
JobInputs ==
    [data : {"default of credit card clients.xls", "other.xls"},
     test_train_ratio : {"0.2", "0.3"},
     learning_rate : {"0.25", "0.5"},
     registered_model_name : {"credit_defaults_model"}]

NoInputs == [data |-> "none", test_train_ratio |-> "none", learning_rate |-> "none",
             registered_model_name |-> "none"]

\* every placeholder of the command names an input
Resolvable(cmd, inp) ==
    \A i \in 1 .. Len(cmd) : cmd[i].kind = "placeholder" => cmd[i].text \in DOMAIN inp

\* the command line after substitution of the placeholders
Render(cmd, inp) ==
    [i \in 1 .. Len(cmd) |->
        IF cmd[i].kind = "placeholder" THEN Value(inp[cmd[i].text]) ELSE cmd[i]]

\* parser.add_argument(...): type and default of each option
Arguments ==
    [data |-> [type |-> "str", default |-> "None"],
     test_train_ratio |-> [type |-> "float", default |-> "0.25"],
     n_estimators |-> [type |-> "int", default |-> "100"],
     learning_rate |-> [type |-> "float", default |-> "0.1"],
     registered_model_name |-> [type |-> "str", default |-> "None"]]

\* texts that int() and float() accept
IntLiterals == {"100"}
FloatLiterals == IntLiterals \cup {"0.1", "0.2", "0.25", "0.3", "0.5"}
Converts(type, text) ==
    \/ type = "str"
    \/ type = "int" /\ text \in IntLiterals
    \/ type = "float" /\ text \in FloatLiterals

NoArgs == [error |-> FALSE, parsed |-> FALSE, ns |-> [o \in DOMAIN Arguments |-> "unset"]]
ArgError == [error |-> TRUE, parsed |-> TRUE, ns |-> [o \in DOMAIN Arguments |-> "unset"]]

\* parser.parse_args() on the tokens after the script name: options are
\* followed by one value each, an unknown option or a value of the wrong
\* type is an error, an option not given keeps its default
RECURSIVE parse_known(_, _)
parse_known(tokens, ns) ==
    IF tokens = <<>> THEN [error |-> FALSE, parsed |-> TRUE, ns |-> ns]
    ELSE IF Len(tokens) < 2 \/ tokens[1].kind # "option" \/ tokens[2].kind # "value"
    THEN ArgError
    ELSE IF tokens[1].text \notin DOMAIN Arguments
    THEN ArgError
    ELSE IF ~Converts(Arguments[tokens[1].text].type, tokens[2].text)
    THEN ArgError
    ELSE parse_known(SubSeq(tokens, 3, Len(tokens)),
                     [ns EXCEPT ![tokens[1].text] = tokens[2].text])

parse_args(line) ==
    parse_known(SubSeq(line, 3, Len(line)), [o \in DOMAIN Arguments |-> Arguments[o].default])

\* variant: main saving the model before it is fitted
mainSavesBeforeFit ==
    << "parse_args", "start_run", "autolog", "read_excel", "log_metric",
       "train_test_split", "save_model", "fit", "predict", "classification_report",
       "log_model", "end_run" >>

\* the statements of main that can raise, in program order; log_model logs the
\* model and registers it under registered_model_name
main ==
    << "parse_args", "start_run", "autolog", "read_excel", "log_metric",
       "train_test_split", "fit", "predict", "classification_report",
       "log_model", "save_model", "end_run" >>

Done(step_) == [step |-> step_, outcome |-> "ok"]
Failed(step_) == [step |-> step_, outcome |-> "raised"]

\* the job before it starts on the compute target
TrainInit ==
    /\ inputs \in JobInputs
    /\ argv = <<>>
    /\ args = NoArgs
    /\ tpc = 0
    /\ tstatus = "submitted"
    /\ tlog = <<>>

\* the job starts: the placeholders are replaced and the script is launched;
\* a placeholder without an input fails the job before the script runs
StartJob ==
    /\ tstatus = "submitted"
    /\ IF Resolvable(command, inputs)
       THEN /\ argv' = Render(command, inputs)
            /\ tstatus' = "running"
            /\ tpc' = 1
       ELSE /\ argv' = argv
            /\ tstatus' = "failed"
            /\ tpc' = tpc
    /\ UNCHANGED <<inputs, args, tlog>>
    /\ UNCHANGED <<wvars, cvars, nvars, rvars, dvars, lvars>>

\* outcomes of a statement: parse_args is decided by the command line, every
\* other statement either completes or raises
Outcomes(step_, line) ==
    IF step_ = "parse_args"
    THEN IF parse_args(line).error THEN {"raised"} ELSE {"ok"}
    ELSE {"ok", "raised"}

\* variant: every statement wrapped in try / except, main goes on after a failure
RunStepContinues ==
    /\ tstatus = "running"
    /\ \E o \in Outcomes(main[tpc], argv) :
          /\ tlog' = Append(tlog, IF o = "ok" THEN Done(main[tpc]) ELSE Failed(main[tpc]))
          /\ args' = IF main[tpc] = "parse_args" /\ o = "ok" THEN parse_args(argv) ELSE args
          /\ tpc' = tpc + 1
          /\ tstatus' = IF tpc = Len(main) THEN "finished" ELSE "running"
    /\ UNCHANGED <<inputs, argv>>
    /\ UNCHANGED <<wvars, cvars, nvars, rvars, dvars, lvars>>

\* main executes its next statement; an exception is not handled anywhere in
\* main and ends the process
RunStep ==
    /\ tstatus = "running"
    /\ \E o \in Outcomes(main[tpc], argv) :
          IF o = "ok"
          THEN /\ tlog' = Append(tlog, Done(main[tpc]))
               /\ args' = IF main[tpc] = "parse_args" THEN parse_args(argv) ELSE args
               /\ tpc' = tpc + 1
               /\ tstatus' = IF tpc = Len(main) THEN "finished" ELSE "running"
          ELSE /\ tlog' = Append(tlog, Failed(main[tpc]))
               /\ tstatus' = "failed"
               /\ UNCHANGED <<args, tpc>>
    /\ UNCHANGED <<inputs, argv>>
    /\ UNCHANGED <<wvars, cvars, nvars, rvars, dvars, lvars>>

TrainNext ==
    \/ StartJob
    \/ RunStep

\* ------------------------------------- the cells of the migration notebook
\* a statement of a code cell: the global names it reads, the names it
\* assigns, and what it does to the files or to the tracking run
Stmt(reads_, writes_, effect_) == [reads |-> reads_, writes |-> writes_, effect |-> effect_]

\* the complete model logging routine: start_run, autolog, XGBClassifier(...),
\* fit, predict, accuracy_score, log_metric, model_path, save_model, log_model
LoggingRoutine ==
    << Stmt({"mlflow"}, {}, "none"),
       Stmt({"mlflow"}, {}, "none"),
       Stmt({"XGBClassifier"}, {"model"}, "none"),
       Stmt({"model", "X_train", "y_train", "X_test", "y_test"}, {}, "none"),
       Stmt({"model", "X_test"}, {"y_pred"}, "none"),
       Stmt({"accuracy_score", "y_test", "predictions"}, {"accuracy"}, "none"),
       Stmt({"mlflow", "accuracy"}, {}, "none"),
       Stmt({}, {"model_path"}, "none"),
       Stmt({"model", "model_path"}, {}, "save_model"),
       Stmt({"mlflow", "ModelWrapper", "model_path", "signature"}, {}, "log_model") >>

\* the code cells up to the routine, in notebook order: data, training,
\* %%writefile score.py, ModelWrapper, samples, signature, the routine
Cells ==
    << << Stmt({}, {"pd", "train_test_split"}, "none"),
          Stmt({"pd"}, {"file_url", "df"}, "none"),
          Stmt({"df", "train_test_split"}, {"X_train", "X_test", "y_train", "y_test"}, "none") >>,
       << Stmt({}, {"mlflow", "XGBClassifier", "accuracy_score"}, "none"),
          Stmt({"mlflow"}, {}, "none"),
          Stmt({"XGBClassifier"}, {"model"}, "none"),
          Stmt({"model", "X_train", "y_train", "X_test", "y_test"}, {}, "none"),
          Stmt({"model", "X_test"}, {"y_pred"}, "none"),
          Stmt({"accuracy_score", "y_test", "y_pred"}, {"accuracy"}, "none"),
          Stmt({"mlflow", "accuracy"}, {}, "none") >>,
       << Stmt({}, {}, "writefile") >>,
       << Stmt({}, {"PythonModel", "PythonModelContext"}, "none"),
          Stmt({"PythonModel", "PythonModelContext"}, {"ModelWrapper"}, "none") >>,
       << Stmt({"pd"}, {"input_sample"}, "none"),
          Stmt({"pd"}, {"output_sample"}, "none") >>,
       << Stmt({}, {"infer_signature"}, "none"),
          Stmt({"infer_signature", "input_sample", "output_sample"}, {"signature"}, "none") >>,
       LoggingRoutine >>

LoggingCell == Len(Cells)
NotLogged == [key |-> "none", path |-> "none", present |-> FALSE]

\* the kernel executing the statements of a cell in order: a statement reading
\* a name that no statement has assigned raises NameError and ends the cell;
\* what the statements before it did stays done
RECURSIVE Exec(_, _, _, _)
Exec(stmts, g, s, l) ==
    IF stmts = <<>> THEN [namespace |-> g, out |-> "ok", saved |-> s, logged |-> l]
    ELSE LET st == Head(stmts) IN
         IF ~(st.reads \subseteq g)
         THEN [namespace |-> g, out |-> "NameError", saved |-> s, logged |-> l]
         ELSE Exec(Tail(stmts), g \cup st.writes,
                   IF st.effect = "save_model" THEN s \cup {"xgb.model"} ELSE s,
                   IF st.effect = "log_model"
                   THEN [key |-> "model", path |-> "xgb.model", present |-> "xgb.model" \in s]
                   ELSE l)

\* a fresh kernel
RoutineInit ==
    /\ namespace = {}
    /\ cellOut = [c \in 1 .. Len(Cells) |-> "notrun"]
    /\ saved = {}
    /\ logged = NotLogged

\* the user runs a cell; Jupyter lets cells be run in any order
RunCell(c) ==
    /\ LET r == Exec(Cells[c], namespace, saved, logged) IN
          /\ namespace' = r.namespace
          /\ cellOut' = [cellOut EXCEPT ![c] = r.out]
          /\ saved' = r.saved
          /\ logged' = r.logged
    /\ UNCHANGED <<wvars, cvars, nvars, rvars, dvars, tvars>>

RoutineNext == \E c \in 1 .. Len(Cells) : RunCell(c)

\* -------------------------------------------------------------- specifications
WrapperIdle ==
    /\ fs = [q \in Paths |-> Missing]
    /\ self_model = Unset
    /\ lastOp = "none"
    /\ reads = 0
    /\ loadOut = "none"
    /\ loadPath = NoKey
    /\ lastData = <<>>
    /\ lastOut = NoOut
    /\ servedBy = Unset
    /\ repeated = FALSE

ComputeIdle ==
    /\ cluster = Absent
    /\ cluster0 = Absent
    /\ createReqs = 0
    /\ log = <<>>

RegistryIdle ==
    /\ registry = {}
    /\ listed = {}
    /\ latest_model_version = 0
    /\ model = NoModel
    /\ deployed = NoModel
    /\ rpc = "idle"

NameIdle ==
    /\ now = CHOOSE t \in Instants : \A u \in Instants : u = t \/ Earlier(t, u)
    /\ names = <<>>

TrainIdle ==
    /\ inputs = NoInputs
    /\ argv = <<>>
    /\ args = NoArgs
    /\ tpc = 0
    /\ tstatus = "idle"
    /\ tlog = <<>>

NotebookIdle ==
    /\ nb = "none"
    /\ pc = 0
    /\ status = "done"
    /\ err = NoErr
    /\ waiting = FALSE
    /\ ops = [o \in Operations |-> "none"]
    /\ traffic = NoTraffic
    /\ caught = {}
    /\ endpoints = {}

RoutineIdle ==
    /\ namespace = {}
    /\ cellOut = [c \in 1 .. Len(Cells) |-> "notrun"]
    /\ saved = {}
    /\ logged = NotLogged

WrapperSpecInit == WrapperInit /\ ComputeIdle /\ NotebookIdle /\ RegistryIdle /\ NameIdle /\ TrainIdle /\ RoutineIdle
WrapperSpec == WrapperSpecInit /\ [][WrapperNext]_vars

ServingSpecInit == ServingInit /\ ComputeIdle /\ NotebookIdle /\ RegistryIdle /\ NameIdle /\ TrainIdle /\ RoutineIdle
ServingSpec == ServingSpecInit /\ [][ServingNext]_vars

ComputeSpecInit == ComputeInit /\ WrapperIdle /\ NotebookIdle /\ RegistryIdle /\ NameIdle /\ TrainIdle /\ RoutineIdle
ComputeSpec == ComputeSpecInit /\ [][ComputeNext]_vars

NotebookSpecInit == NotebookInit /\ WrapperIdle /\ NameIdle /\ TrainIdle /\ RoutineIdle
NotebookSpec == NotebookSpecInit /\ [][NotebookNext]_vars

\* the same runs, with the workspace bringing a requested deletion to an end
NotebookFairSpec == NotebookSpec /\ WF_vars(Progress("delete"))

RegistrySpecInit == RegistryInit /\ WrapperIdle /\ ComputeIdle /\ NotebookIdle /\ NameIdle /\ TrainIdle /\ RoutineIdle
RegistrySpec == RegistrySpecInit /\ [][RegistryNext]_vars

NameSpecInit == NameInit /\ WrapperIdle /\ ComputeIdle /\ NotebookIdle /\ RegistryIdle /\ TrainIdle /\ RoutineIdle
NameSpec == NameSpecInit /\ [][NameNext]_vars

TrainSpecInit == TrainInit /\ WrapperIdle /\ ComputeIdle /\ NotebookIdle /\ RegistryIdle /\ NameIdle /\ RoutineIdle
TrainSpec == TrainSpecInit /\ [][TrainNext]_vars

RoutineSpecInit == RoutineInit /\ WrapperIdle /\ ComputeIdle /\ NotebookIdle /\ RegistryIdle /\ NameIdle /\ TrainIdle
RoutineSpec == RoutineSpecInit /\ [][RoutineNext]_vars

\* ------------------------------------------------------------------- claims
\* the probability row the serving booster predicts for the i-th row of the batch
RowProba(i) == servedBy.booster.proba[lastData[i]].p

\* predict_proba succeeded on the last call: a loaded booster rejecting no row
ProbaSucceeded ==
    /\ lastOp = "predict"
    /\ servedBy.state = "loaded"
    /\ \A i \in 1 .. Len(lastData) : servedBy.booster.proba[lastData[i]].err = "none"

\* C1: whenever predict_proba succeeds on a batch of N rows (N >= 0), predict
\* returns a table with exactly N rows and exactly the columns class, confidence.
C1_RowsAndColumns ==
    ProbaSucceeded =>
        /\ lastOut.kind = "table"
        /\ Len(lastOut.table.rows) = Len(lastData)
        /\ lastOut.table.columns = <<"class", "confidence">>
        /\ \A i \in 1 .. Len(lastOut.table.rows) :
               DOMAIN lastOut.table.rows[i] = {"class", "confidence"}

C1_Witness ==
    /\ ProbaSucceeded
    /\ lastOut.kind = "table"
    /\ Len(lastData) = 2
    /\ servedBy.booster.nclass = 3

\* C2: in every output row, confidence is the largest class probability the
\* model predicted for that row, and lies in [0,1] (0..PDen on the grid).
C2_ConfidenceIsMax ==
    lastOut.kind = "table" =>
        \A i \in 1 .. Len(lastOut.table.rows) :
            LET conf == lastOut.table.rows[i]["confidence"] IN
            /\ conf \in 0 .. PDen
            /\ \E j \in DOMAIN RowProba(i) : RowProba(i)[j] = conf
            /\ \A j \in DOMAIN RowProba(i) : RowProba(i)[j] <= conf

C2_Witness ==
    /\ lastOut.kind = "table"
    /\ Len(lastOut.table.rows) = 2
    /\ lastOut.table.rows[1]["confidence"] = PDen
    /\ lastOut.table.rows[2]["confidence"] < PDen
    /\ RowProba(2)[0] > RowProba(2)[1]

\* C3: in every output row, class is the index of the class whose predicted
\* probability is the row's maximum: the probability at index class is the row's
\* confidence and no class has a larger one.
C3_ClassIsArgmax ==
    lastOut.kind = "table" =>
        \A i \in 1 .. Len(lastOut.table.rows) :
            LET cls == lastOut.table.rows[i]["class"] IN
            /\ cls \in 0 .. (servedBy.booster.nclass - 1)
            /\ RowProba(i)[cls] = lastOut.table.rows[i]["confidence"]
            /\ \A j \in DOMAIN RowProba(i) : RowProba(i)[j] <= RowProba(i)[cls]

C3_Witness ==
    /\ lastOut.kind = "table"
    /\ Len(lastOut.table.rows) = 2
    /\ lastOut.table.rows[1]["class"] = 2
    /\ lastOut.table.rows[2]["class"] = 0

\* C4: a predict call that repeats the previous call's input on the same loaded
\* instance (no load_context in between) returns the previous call's output, and
\* no predict call changes self.model.
C4_PredictIdempotent ==
    [][ (lastOp' = "predict") =>
            /\ self_model' = self_model
            /\ (lastOp = "predict" /\ lastData' = lastData) => lastOut' = lastOut ]_vars

C4_Witness ==
    /\ repeated
    /\ lastOp = "predict"
    /\ lastOut.kind = "table"
    /\ Len(lastData) > 0

\* C5: for a single-row input to a two-class model, predict returns one row whose
\* class is 0 or 1 and whose confidence is in [0,1], and confidence plus the
\* probability predicted for the other class is 1.
C5_BinaryComplement ==
    (ProbaSucceeded /\ Len(lastData) = 1 /\ servedBy.booster.nclass = 2) =>
        /\ lastOut.kind = "table"
        /\ Len(lastOut.table.rows) = 1
        /\ LET cls == lastOut.table.rows[1]["class"]
               conf == lastOut.table.rows[1]["confidence"] IN
           /\ cls \in {0, 1}
           /\ conf \in 0 .. PDen
           /\ conf + RowProba(1)[1 - cls] = PDen

C5_Witness ==
    /\ ProbaSucceeded
    /\ Len(lastData) = 1
    /\ servedBy.booster.nclass = 2
    /\ lastOut.kind = "table"
    /\ lastOut.table.rows[1]["confidence"] < PDen
    /\ RowProba(1)[1 - lastOut.table.rows[1]["class"]] > 0

\* C6: once load_context has returned without error for a context whose
\* artifacts map "model" to a model file, self.model is the model loaded from that
\* path; a later predict call is served by that model and makes no load_model call.
C6_LoadedReadyToServe ==
    /\ [](loadOut = "ok" =>
            /\ loadPath \in Paths
            /\ fs[loadPath].kind = "model"
            /\ self_model = Loaded(fs[loadPath].booster))
    /\ [][ (lastOp' = "predict" /\ loadOut = "ok") =>
              /\ servedBy' = Loaded(fs[loadPath].booster)
              /\ lastOut' = predict(Loaded(fs[loadPath].booster), lastData')
              /\ lastOut'.err \notin {"AttributeError", "NotFittedError"}
              /\ reads' = 0
              /\ self_model' = self_model ]_vars

C6_Witness ==
    /\ loadOut = "ok"
    /\ loadPath = "other.model"
    /\ lastOp = "predict"
    /\ repeated
    /\ servedBy = self_model
    /\ lastOut.kind = "table"

\* C7: when the underlying model's predict_proba raises, predict raises that same
\* error and returns no table: the error is neither caught nor turned into a value.
C7_ErrorPropagates ==
    /\ (lastOp = "predict" /\ servedBy.state = "loaded") =>
           \A i \in 1 .. Len(lastData) :
               (/\ servedBy.booster.proba[lastData[i]].err # "none"
                /\ \A h \in 1 .. (i - 1) : servedBy.booster.proba[lastData[h]].err = "none")
               => lastOut = Raised(servedBy.booster.proba[lastData[i]].err)
    /\ (lastOp = "predict" /\ servedBy.state = "unfitted") => lastOut = Raised("NotFittedError")

C7_Witness ==
    /\ lastOp = "predict"
    /\ servedBy.state = "loaded"
    /\ Len(lastData) = 2
    /\ servedBy.booster.proba[lastData[1]].err = "none"
    /\ servedBy.booster.proba[lastData[2]].err = "RuntimeError"
    /\ lastOut = Raised("RuntimeError")

\* the run the last step of the cell appended to the log
LastRun(l) == l[Len(l)]

\* create requests issued by the first n runs
RECURSIVE RequestsIn(_, _)
RequestsIn(l, n) ==
    IF n = 0 THEN 0 ELSE RequestsIn(l, n - 1) + (IF l[n].requested THEN 1 ELSE 0)

\* C8: when cpu-cluster exists and its retrieval succeeds, the cell issues no
\* create-or-update request and leaves the target as it was; a create request is
\* issued only by a run whose retrieval did not succeed.
C8_ReuseWhenFound ==
    [][ (Len(log') = Len(log) + 1) =>
            /\ (cluster.exists /\ LastRun(log').get = "ok") =>
                   /\ createReqs' = createReqs
                   /\ cluster' = cluster
                   /\ LastRun(log').cpu_cluster = cluster
            /\ (createReqs' # createReqs) => LastRun(log').get # "ok" ]_vars

C8_Witness ==
    /\ Len(log) >= 1
    /\ LastRun(log).get = "ok"
    /\ LastRun(log).before.size = "STANDARD_DS11_V2"
    /\ cluster = LastRun(log).before
    /\ createReqs = 0

\* C9 as stated: two runs in succession from an absent cpu-cluster issue exactly
\* one create request, the second run finding and reusing the created target.
C9_Original ==
    (cluster0 = Absent /\ Len(log) >= 2) =>
        /\ RequestsIn(log, 2) = 1
        /\ log[2].get = "ok"

\* C9 amended: two runs in succession from an absent cpu-cluster issue exactly one
\* create request whenever the second run's retrieval succeeds; the second run
\* then reuses the target the first run created.
C9_OneCreateWhenSecondGetSucceeds ==
    (cluster0 = Absent /\ Len(log) >= 2 /\ log[2].get = "ok") =>
        /\ RequestsIn(log, 2) = 1
        /\ log[1].requested /\ log[1].create = "ok"
        /\ ~log[2].requested
        /\ log[2].cpu_cluster = AmlCompute

C9_Witness ==
    /\ cluster0 = Absent
    /\ Len(log) >= 2
    /\ log[1].get = "ResourceNotFoundError"
    /\ log[2].get = "ok"
    /\ createReqs = 1

\* C10: any failure of the retrieval, also one that occurs while the target
\* exists, is treated as absence: the run does not raise the retrieval's error and
\* issues exactly one create-or-update request.
C10_CatchAllFallback ==
    [][ (Len(log') = Len(log) + 1 /\ LastRun(log').get # "ok") =>
            /\ LastRun(log').raisedBy # "get"
            /\ LastRun(log').requested
            /\ createReqs' = createReqs + 1 ]_vars

C10_Witness ==
    /\ Len(log) >= 1
    /\ LastRun(log).get = "HttpResponseError"
    /\ LastRun(log).before.exists
    /\ LastRun(log).before.size = "STANDARD_DS11_V2"
    /\ LastRun(log).after = AmlCompute
    /\ LastRun(log).requested

\* calls whose failure some except clause of the notebooks catches
CaughtAnywhere == {"compute.get", "MLClient.from_config"}

\* C11 as stated: only the failure of the compute-target lookup is ever caught,
\* and an uncaught failure stops the notebook at the call that raised it.
C11_Original ==
    /\ caught \subseteq {"compute.get"}
    /\ err # NoErr => status = "stopped" /\ pc = err.at

\* C11: apart from the compute-target lookup and MLClient.from_config in the
\* AutoML notebooks' client set-up cell, no failure of a remote-client call is
\* caught: it reaches the user and the notebook stays stopped at that call.
C11_OnlyLookupAndFromConfigCaught ==
    /\ caught \subseteq CaughtAnywhere
    /\ err # NoErr => status = "stopped" /\ pc = err.at /\ err.call \notin caught

\* a run in which from_config failed and was caught, and a later call's failure
\* stopped the notebook
C11_Witness ==
    /\ nb \in AutoMLNotebooks
    /\ "MLClient.from_config" \in caught
    /\ status = "stopped"
    /\ err.call = "jobs.create_or_update"
    /\ pc = 3

\* the notebook itself takes a step (not the workspace)
NotebookActs == <<pc, status, waiting, caught>>' # <<pc, status, waiting, caught>>

\* an earlier call of this run started operation x
StartedBefore(x) ==
    \E i \in 1 .. (pc - 1) :
        /\ StepsOf(nb)[i].op = x
        /\ StepsOf(nb)[i].mode \in {"submit", "begin_result", "get_or_create"}

\* the operations a notebook waits for with .result() or jobs.stream
WaitedOn(n) ==
    IF n = "azureml-in-a-day" THEN {"endpoint", "deployment"}
    ELSE {"job", "script_job", "endpoint", "deployment"}

UsesBestRun == {"best_child_run", "download", "register_model"}

\* C13: in the AutoML notebooks the automl_best_child_run_id tag is read, and the
\* best run's artifacts are downloaded or registered, only when the submitted
\* AutoML job has reached a finished state (jobs.stream has returned).
C13_BestRunReadAfterJobFinished ==
    [][(nb \in AutoMLNotebooks /\ NotebookActs /\ AtStep /\ Step.cell \in UsesBestRun)
          => (ops["job"] \in Finished /\ StartedBefore("job"))]_vars

\* the tag has been read and the artifacts downloaded after the job succeeded
C13_Witness ==
    /\ nb \in AutoMLNotebooks
    /\ pc > 1
    /\ StepsOf(nb)[pc - 1].cell = "download"
    /\ ops["job"] = "succeeded"

\* sum of the percentages of a traffic map
RECURSIVE TrafficSum(_)
TrafficSum(t) ==
    IF DOMAIN t = {} THEN 0
    ELSE LET d == CHOOSE x \in DOMAIN t : TRUE
         IN t[d] + TrafficSum([e \in DOMAIN t \ {d} |-> t[e]])

\* C15: in every state the notebooks reach, the percentages of the traffic map
\* sent for the endpoint sum to at most 100.
C15_TrafficAtMostAll == TrafficSum(traffic) <= AllTraffic

\* the MLflow notebook has sent its endpoint with a traffic map
C15_Witness ==
    /\ nb = "automl-mlflow"
    /\ ops["endpoint_update"] # "none"
    /\ DOMAIN traffic # {}
    /\ TrafficSum(traffic) = AllTraffic

\* the blue deployment cell of AzureML in a Day has completed
BlueDeployed ==
    /\ nb = "azureml-in-a-day"
    /\ \E i \in 1 .. (pc - 1) : StepsOf(nb)[i].op = "deployment"

\* C16: after the blue deployment step of AzureML in a Day has completed, the
\* endpoint's traffic map routes all traffic to the deployment named blue.
C16_BlueGetsAllTraffic ==
    BlueDeployed => traffic = [d \in {"blue"} |-> AllTraffic]

\* C14: the version the blue deployment is created with is the numerically
\* greatest of the versions of credit_defaults_model listed (10 is later than
\* 9), and the model fetched for the deployment is exactly that version.
C14_DeploysGreatestListedVersion ==
    rpc \in {"blue_deployment", "done"} =>
        /\ model \in listed
        /\ \A v \in listed : int(v) <= int(model)
        /\ int(model) = latest_model_version
        /\ rpc = "done" => deployed = model

\* versions 9 and 10 were listed and version 10 was deployed
C14_Witness ==
    /\ rpc = "done"
    /\ {str(9), str(10)} \subseteq listed
    /\ deployed = str(10)

\* C17: the datetime-derived endpoint name is unique: any two runs of the
\* name-generation cell at distinct instants generate different names.
C17_NamesUnique ==
    \A i, j \in 1 .. Len(names) :
        names[i].at # names[j].at => names[i].name # names[j].name

\* C18: every option the job's command line passes is one the parser accepts,
\* every placeholder of the command names an input of the job, and
\* n_estimators, which the command omits, gets the parser's default 100.
C18_CommandMatchesParser ==
    /\ ~(tstatus = "failed" /\ tpc = 0)
    /\ \A i \in 1 .. Len(argv) : argv[i].kind = "option" => argv[i].text \in DOMAIN Arguments
    /\ \A i \in 1 .. Len(argv) : argv[i].kind # "placeholder"
    /\ \A i \in 1 .. Len(tlog) : tlog[i].step = "parse_args" => tlog[i].outcome = "ok"
    /\ args.parsed => /\ ~args.error
                      /\ args.ns["n_estimators"] = "100"
                      /\ \A k \in DOMAIN inputs : args.ns[k] = inputs[k]

\* the script has parsed a command line whose learning rate differs from the default
C18_Witness ==
    /\ args.parsed
    /\ args.ns["learning_rate"] = "0.5"
    /\ args.ns["n_estimators"] = Arguments["n_estimators"].default
    /\ Len(argv) = 10

\* the steps the ordering is stated for, in the stated order
StatedOrder ==
    << "read_excel", "train_test_split", "fit", "classification_report",
       "log_model", "save_model", "end_run" >>

\* position of the completed step s in tlog, 0 when it has not completed
CompletedAt(s) ==
    IF \E i \in 1 .. Len(tlog) : tlog[i] = Done(s)
    THEN CHOOSE i \in 1 .. Len(tlog) : tlog[i] = Done(s)
    ELSE 0

\* C19: in every execution of main the steps complete in the order read data,
\* split, fit, report, log/register model, save model, end run: a step of that
\* list has completed only if every earlier one completed before it.
C19_StepsInOrder ==
    \A a, b \in 1 .. Len(StatedOrder) :
        (a < b /\ CompletedAt(StatedOrder[b]) > 0) =>
            /\ CompletedAt(StatedOrder[a]) > 0
            /\ CompletedAt(StatedOrder[a]) < CompletedAt(StatedOrder[b])

\* a run that went through to end_run
C19_Witness ==
    /\ tstatus = "finished"
    /\ CompletedAt("fit") > 0
    /\ CompletedAt("fit") < CompletedAt("log_model")
    /\ CompletedAt("save_model") < CompletedAt("end_run")

\* C20: a failing step of main aborts the run: the failure is the last thing
\* that happens (no later step, so a failure before model logging leaves the
\* model unregistered and unsaved and end_run uncalled) and no step runs twice.
C20_FailureAborts ==
    /\ \A i \in 1 .. Len(tlog) :
          tlog[i].outcome = "raised" => (i = Len(tlog) /\ tstatus = "failed")
    /\ \A i, j \in 1 .. Len(tlog) : tlog[i].step = tlog[j].step => i = j
    /\ (tstatus = "failed" /\ tlog # <<>>
            /\ tlog[Len(tlog)].step \notin {"save_model", "end_run"}) =>
          /\ CompletedAt("log_model") = 0
          /\ CompletedAt("save_model") = 0
          /\ CompletedAt("end_run") = 0

\* fit raised: nothing was logged, registered or saved
C20_Witness ==
    /\ tstatus = "failed"
    /\ tlog[Len(tlog)] = Failed("fit")
    /\ CompletedAt("read_excel") > 0

\* C21: in AzureML in a Day, whenever the latest-model-version step runs, the
\* training job has completed and a version of credit_defaults_model is
\* registered, so the step selects a version and does not fail on an empty list.
C21_VersionAlwaysSelected ==
    [][(nb = "azureml-in-a-day" /\ NotebookActs /\ AtStep
            /\ Step.cell = "latest_model_version")
          => /\ ops["job"] = "succeeded"
             /\ registry # {}
             /\ err'.kind # "ValueError"]_vars

\* the notebooks that create an online endpoint
DeploymentNotebooks == {"azureml-in-a-day", "automl-mlflow"}

\* a run of a deployment notebook whose last cell has completed
RanLastCell == nb \in DeploymentNotebooks /\ status = "done"

StoppedAfterEndpointCreation ==
    /\ nb \in DeploymentNotebooks
    /\ status = "stopped"
    /\ \E i \in 1 .. (pc - 1) : StepsOf(nb)[i].cell = "create_endpoint"
    /\ Step.cell # "delete_endpoint"

\* C23: when a step between endpoint creation and the delete step fails, the run
\* stops, the created endpoint still exists and no deletion of it has been
\* requested; nothing is rolled back.
C23_EndpointLeftBehind ==
    StoppedAfterEndpointCreation =>
        /\ EndpointNameOf(nb) \in endpoints
        /\ ops["delete"] = "none"
        /\ ops["endpoint"] = "succeeded"
        /\ pc = err.at

\* the invocation failed with the deployment in place
C23_Witness ==
    /\ StoppedAfterEndpointCreation
    /\ Step.cell = "invoke"
    /\ ops["deployment"] = "succeeded"
    /\ EndpointNameOf(nb) \in endpoints

\* the notebook is about to send the request that creates its deployment
CreatesDeployment ==
    /\ NotebookActs /\ AtStep /\ ~waiting
    /\ Step.op = "deployment"

\* an earlier call of this run registered or fetched the model to deploy
ModelInHand ==
    \E i \in 1 .. (pc - 1) :
        StepsOf(nb)[i].call \in {"models.get", "models.create_or_update"}

\* C26: a deployment is created only after the creation of its endpoint has
\* finished and after the model it binds has been registered and fetched.
C26_DeploymentAfterEndpointAndModel ==
    [][CreatesDeployment =>
          /\ ops["endpoint"] = "succeeded"
          /\ EndpointNameOf(nb) \in endpoints
          /\ ModelInHand
          /\ nb = "azureml-in-a-day" => str(latest_model_version) \in registry]_vars

\* a deployment has been created on the existing endpoint
C26_Witness ==
    /\ nb \in DeploymentNotebooks
    /\ ops["deployment"] = "succeeded"
    /\ ops["endpoint"] = "succeeded"
    /\ ModelInHand

\* C27: traffic is assigned to a deployment only after that deployment's
\* creation has completed, and every key of a traffic map sent for an endpoint
\* names a deployment that exists on that endpoint.
C27_TrafficToExistingDeployment ==
    [][traffic' # traffic =>
          \A d \in DOMAIN traffic' :
              /\ d = DeploymentNameOf(nb)
              /\ ops["deployment"] = "succeeded"
              /\ EndpointNameOf(nb) \in endpoints]_vars

\* the traffic map has been sent after the deployment was created
C27_Witness ==
    /\ nb = "automl-mlflow"
    /\ DeploymentNameOf(nb) \in DOMAIN traffic
    /\ ops["deployment"] = "succeeded"
    /\ ops["endpoint_update"] = "succeeded"

\* C24: for every model and batch on which predict_proba succeeds, the class and
\* confidence columns that ModelWrapper.predict returns hold the same values in
\* the same row order as the class and confidence lists of the JSON that
\* score.py's run returns for the same model and batch.
C24_WrapperMatchesScoringScript ==
    ProbaSucceeded =>
        LET r == run(servedBy, lastData) IN
        /\ r.kind = "json"
        /\ lastOut.kind = "table"
        /\ \A col \in {"class", "confidence"} :
               /\ Len(JsonValue(r.json, col)) = Len(lastOut.table.rows)
               /\ \A i \in 1 .. Len(lastOut.table.rows) :
                      lastOut.table.rows[i][col] = JsonValue(r.json, col)[i]

\* two rows with different classes were served
C24_Witness ==
    /\ ProbaSucceeded
    /\ lastOut.kind = "table"
    /\ Len(lastData) = 2
    /\ lastOut.table.rows[1]["class"] # lastOut.table.rows[2]["class"]
    /\ JsonValue(run(servedBy, lastData).json, "class")[2] = lastOut.table.rows[2]["class"]

\* every code cell before the logging routine has run to its end
EarlierCellsRan == \A c \in 1 .. (LoggingCell - 1) : cellOut[c] = "ok"

\* C25: run after the notebook's earlier cells, the model logging routine reads
\* only assigned variables and so reaches save_model and pyfunc.log_model; the
\* file xgb.model is saved before log_model is called and is logged under the
\* artifact key "model".
C25_LoggingRoutineCompletes ==
    (EarlierCellsRan /\ cellOut[LoggingCell] # "notrun") =>
        /\ cellOut[LoggingCell] = "ok"
        /\ "xgb.model" \in saved
        /\ logged = [key |-> "model", path |-> "xgb.model", present |-> TRUE]

\* C28: a predict call on a ModelWrapper whose self.model is not a loaded model
\* (load_context never returned without error: the attribute is unassigned, or
\* holds the XGBClassifier a failed load_model left unfitted) raises an error and
\* returns no table; every table predict returns was served by a loaded model.
C28_NoPredictionFromUnloadedModel ==
    lastOp = "predict" =>
        /\ servedBy.state # "loaded" =>
              /\ lastOut.kind = "raised"
              /\ lastOut.err \in {"AttributeError", "NotFittedError"}
              /\ lastOut.table = NoTable
        /\ lastOut.kind = "table" => servedBy.state = "loaded"

C28_Witness ==
    /\ lastOp = "predict"
    /\ loadOut = "none"
    /\ servedBy = Unset
    /\ Len(lastData) > 0
    /\ lastOut = Raised("AttributeError")

\* C29: when a two-class model serves a batch, every confidence predict returns
\* is at least 0.5 (twice the confidence is at least PDen on the grid), so no row
\* it returns equals the declared output sample: class 0 with confidence 0.25.
C29_BinaryConfidenceAtLeastHalf ==
    (ProbaSucceeded /\ servedBy.booster.nclass = 2) =>
        /\ lastOut.kind = "table"
        /\ \A i \in 1 .. Len(lastOut.table.rows) :
               LET cls == lastOut.table.rows[i]["class"]
                   conf == lastOut.table.rows[i]["confidence"] IN
               /\ 2 * conf >= PDen
               /\ conf = PDen - RowProba(i)[1 - cls]
               /\ conf >= RowProba(i)[1 - cls]
               /\ ~ (/\ cls = output_sample.class
                     /\ conf * output_sample.confidence.den
                            = output_sample.confidence.num * PDen)

C29_Witness ==
    /\ ProbaSucceeded
    /\ servedBy.booster.nclass = 2
    /\ lastOut.kind = "table"
    /\ Len(lastOut.table.rows) = 2
    /\ lastOut.table.rows[1]["class"] = output_sample.class
    /\ lastOut.table.rows[1]["confidence"] < PDen
    /\ lastOut.table.rows[2]["class"] = 1

\* the classes sharing the largest probability predicted for the i-th row
TiedAtMax(i) ==
    {j \in DOMAIN RowProba(i) : \A j2 \in DOMAIN RowProba(i) : RowProba(i)[j2] <= RowProba(i)[j]}

\* C30: when several classes share the largest predicted probability of a row,
\* predict reports the lowest class index among them as class and that shared
\* probability as confidence; the same model and batch give the same table.
C30_TieGoesToLowestIndex ==
    ProbaSucceeded =>
        /\ lastOut.kind = "table"
        /\ lastOut = predict(servedBy, lastData)
        /\ \A i \in 1 .. Len(lastOut.table.rows) :
               LET cls == lastOut.table.rows[i]["class"]
                   conf == lastOut.table.rows[i]["confidence"] IN
               /\ cls \in TiedAtMax(i)
               /\ \A j \in TiedAtMax(i) : cls <= j
               /\ \A j \in TiedAtMax(i) : RowProba(i)[j] = conf

C30_Witness ==
    /\ ProbaSucceeded
    /\ lastOut.kind = "table"
    /\ servedBy.booster.nclass = 3
    /\ \E i \in 1 .. Len(lastOut.table.rows) :
          /\ Cardinality(TiedAtMax(i)) >= 2
          /\ \E j \in TiedAtMax(i) : j > lastOut.table.rows[i]["class"]

====
